---- MODULE Spec2Model ----
(***************************************************************************)
(* Model of analizador_json.py: the Lexer (character level, with line and  *)
(* column tracking), tokenize_all, and the recursive-descent Parser with   *)
(* panic-mode recovery, as an explicit call stack of procedure frames.     *)
(* Offsets are 0-based as in the Python source: the character at offset p  *)
(* of text is text[p + 1].  steps counts the steps the parser has taken;    *)
(* nothing but the termination bound reads it.                             *)
(***************************************************************************)
EXTENDS Integers, Sequences, FiniteSets, TLC

VARIABLES text, pos, line, col, tokens, current, errors, stack, status, result, steps

vars == <<text, pos, line, col, tokens, current, errors, stack, status, result, steps>>

lexvars == <<pos, line, col>>

(***************************************************************************)
(* Bounds of the checked instances.                                        *)
(***************************************************************************)
MaxTextLen == 4

MaxTokens == 3

MaxGrammarLen == 10

MaxEditLen == 7

(***************************************************************************)
(* Characters.                                                             *)
(***************************************************************************)
NL == "\n"

QUOTE == "\""

BACKSLASH == "\\"

\* the characters WHITESPACE (\s) matches, among those the model's texts use
IsSpace(c) == c \in {" ", "\t", "\n", "\r", "\f"}

IsDigit(c) == c \in {"0", "1", "2", "3", "4", "5", "6", "7", "8", "9"}

\* str.count("\n")
CountNewlines(span) == Cardinality({i \in 1..Len(span) : span[i] = NL})

\* str.rfind("\n"): 0-based index of the last newline, -1 when there is none
RFindNewline(span) ==
    IF \E i \in 1..Len(span) : span[i] = NL
    THEN (CHOOSE i \in 1..Len(span) :
              /\ span[i] = NL
              /\ \A j \in (i + 1)..Len(span) : span[j] # NL) - 1
    ELSE -1

Slice(t, a, b) == SubSeq(t, a + 1, b)

(***************************************************************************)
(* The regular expressions of TOKENS, each as the end offset of its match  *)
(* at offset p, or -1 when it does not match there.                        *)
(***************************************************************************)
MatchChar(t, p, c) == IF p < Len(t) /\ t[p + 1] = c THEN p + 1 ELSE -1

RECURSIVE StringBody(_, _)
\* (?:[^"\\]|\\.)*" from offset q: '.' does not match a newline
StringBody(t, q) ==
    IF q >= Len(t) THEN -1
    ELSE IF t[q + 1] = QUOTE THEN q + 1
    ELSE IF t[q + 1] = BACKSLASH
         THEN IF q + 1 < Len(t) /\ t[q + 2] # NL THEN StringBody(t, q + 2) ELSE -1
    ELSE StringBody(t, q + 1)

MatchString(t, p) ==
    IF p < Len(t) /\ t[p + 1] = QUOTE THEN StringBody(t, p + 1) ELSE -1

RECURSIVE Digits(_, _)
\* [0-9]* from offset q: the offset after the run of digits
Digits(t, q) == IF q < Len(t) /\ IsDigit(t[q + 1]) THEN Digits(t, q + 1) ELSE q

\* (?:\.[0-9]+)? from offset q
Fraction(t, q) ==
    IF q < Len(t) /\ t[q + 1] = "." /\ Digits(t, q + 1) > q + 1
    THEN Digits(t, q + 1) ELSE q

\* (?:(?:e|E)(?:\+|-)?[0-9]+)? from offset q
Exponent(t, q) ==
    IF q < Len(t) /\ t[q + 1] \in {"e", "E"}
    THEN LET s == IF q + 1 < Len(t) /\ t[q + 2] \in {"+", "-"} THEN q + 2 ELSE q + 1
         IN  IF Digits(t, s) > s THEN Digits(t, s) ELSE q
    ELSE q

MatchNumber(t, p) ==
    IF Digits(t, p) > p THEN Exponent(t, Fraction(t, Digits(t, p))) ELSE -1

MatchWord(t, p, w) ==
    IF p + Len(w) <= Len(t) /\ Slice(t, p, p + Len(w)) = w THEN p + Len(w) ELSE -1

MatchEither(t, p, w1, w2) ==
    IF MatchWord(t, p, w1) >= 0 THEN MatchWord(t, p, w1) ELSE MatchWord(t, p, w2)

\* the token names of TOKENS, in the order the list is tried
TOKENS ==
    << "L_CORCHETE", "R_CORCHETE", "L_LLAVE", "R_LLAVE", "COMA", "DOS_PUNTOS",
       "LITERAL_CADENA", "LITERAL_NUM", "PR_TRUE", "PR_FALSE", "PR_NULL" >>

Match(name, t, p) ==
    CASE name = "L_CORCHETE" -> MatchChar(t, p, "[")
      [] name = "R_CORCHETE" -> MatchChar(t, p, "]")
      [] name = "L_LLAVE" -> MatchChar(t, p, "{")
      [] name = "R_LLAVE" -> MatchChar(t, p, "}")
      [] name = "COMA" -> MatchChar(t, p, ",")
      [] name = "DOS_PUNTOS" -> MatchChar(t, p, ":")
      [] name = "LITERAL_CADENA" -> MatchString(t, p)
      [] name = "LITERAL_NUM" -> MatchNumber(t, p)
      [] name = "PR_TRUE" -> MatchEither(t, p, <<"t", "r", "u", "e">>, <<"T", "R", "U", "E">>)
      [] name = "PR_FALSE" ->
             MatchEither(t, p, <<"f", "a", "l", "s", "e">>, <<"F", "A", "L", "S", "E">>)
      [] name = "PR_NULL" -> MatchEither(t, p, <<"n", "u", "l", "l">>, <<"N", "U", "L", "L">>)

(***************************************************************************)
(* The Lexer.  A lexer state is a record [pos, line, col]; the text is     *)
(* fixed at construction.                                                  *)
(***************************************************************************)
Token(type, lexeme, ln, cl) == [type |-> type, lexeme |-> lexeme, line |-> ln, col |-> cl]

NoToken == Token("NONE", <<>>, 0, 0)

RECURSIVE WhitespaceEnd(_, _)
\* m.end() of WHITESPACE.match(text, pos), or pos itself when there is no match
WhitespaceEnd(t, p) ==
    IF p < Len(t) /\ IsSpace(t[p + 1]) THEN WhitespaceEnd(t, p + 1) ELSE p

\* a column counted from 0 on the new line
ColAfterNewlineFromZero(span) == Len(span) - RFindNewline(span) - 1

\* the column after a span that holds a newline
ColAfterNewline(span) == Len(span) - RFindNewline(span) - 1 + 1

\* line and column after consuming span from (ln, cl)
Moved(ln, cl, span) ==
    IF CountNewlines(span) = 0
    THEN [line |-> ln, col |-> cl + Len(span)]
    ELSE [line |-> ln + CountNewlines(span), col |-> ColAfterNewline(span)]

AdvanceWhitespace(t, lx) ==
    LET e == WhitespaceEnd(t, lx.pos)
        span == Slice(t, lx.pos, e)
    IN  IF e = lx.pos THEN lx
        ELSE [pos |-> e, line |-> Moved(lx.line, lx.col, span).line,
              col |-> Moved(lx.line, lx.col, span).col]

RECURSIVE FirstMatch(_, _, _)
\* the index in TOKENS of the first pattern from the k-th on that matches at
\* offset p, or 0 when none does
FirstMatch(t, p, k) ==
    IF k > Len(TOKENS) THEN 0
    ELSE IF Match(TOKENS[k], t, p) >= 0 THEN k
    ELSE FirstMatch(t, p, k + 1)

\* the token of pattern i found at the lexer state w, and the state after it
Matched(t, w, i, lex) ==
    [fault |-> FALSE,
     tok |-> Token(TOKENS[i], lex, w.line, w.col),
     lx |-> [pos |-> w.pos + Len(lex), line |-> Moved(w.line, w.col, lex).line,
             col |-> Moved(w.line, w.col, lex).col]]

\* next_token once the whitespace is skipped and the lexer state is w
TokenAt(t, w, i) ==
    IF w.pos >= Len(t)
    THEN [fault |-> FALSE, tok |-> Token("EOF", <<>>, w.line, w.col), lx |-> w]
    ELSE IF i > 0
    THEN Matched(t, w, i, Slice(t, w.pos, Match(TOKENS[i], t, w.pos)))
    ELSE [fault |-> TRUE,
          tok |-> Token("LEX_ERROR", <<t[w.pos + 1]>>, w.line, w.col),
          lx |-> w]

\* the result of one call: [fault, tok, lx], with lx the lexer state after it
NextToken(t, lx) ==
    IF lx.pos >= Len(t)
    THEN [fault |-> FALSE, tok |-> Token("EOF", <<>>, lx.line, lx.col), lx |-> lx]
    ELSE TokenAt(t, AdvanceWhitespace(t, lx),
                 FirstMatch(t, AdvanceWhitespace(t, lx).pos, 1))

Lx == [pos |-> pos, line |-> line, col |-> col]

SetLexer(lx) == pos' = lx.pos /\ line' = lx.line /\ col' = lx.col

(***************************************************************************)
(* tokenize_all: one iteration of its loop per step.                       *)
(***************************************************************************)
Last(s) == s[Len(s)]

TokenizeAll ==
    /\ status = "lexing"
    /\ LET r == NextToken(text, Lx) IN
         /\ SetLexer(r.lx)
         /\ IF r.fault
            THEN tokens' = tokens \o << r.tok, Token("EOF", <<>>, r.lx.line, r.lx.col) >>
            ELSE tokens' = Append(tokens, r.tok)
         /\ status' = IF r.fault \/ r.tok.type = "EOF" THEN "lexed" ELSE "lexing"
    /\ UNCHANGED <<text, current, errors, stack, result, steps>>

(***************************************************************************)
(* Inputs of the lexer instance: every text over LexChars up to            *)
(* MaxTextLen characters, and the texts the documentation names.           *)
(***************************************************************************)
LexChars == {"{", ":", QUOTE, BACKSLASH, NL, " ", "1", "a"}

RECURSIVE TextsUpTo(_, _)
TextsUpTo(chars, n) ==
    IF n = 0 THEN {<<>>}
    ELSE LET shorter == TextsUpTo(chars, n - 1)
         IN  shorter \cup {Append(s, c) : s \in shorter, c \in chars}

\* "{\n  \"a\":1\n}"
PositionExample ==
    << "{", NL, " ", " ", QUOTE, "a", QUOTE, ":", "1", NL, "}" >>

LexTexts ==
    TextsUpTo(LexChars, MaxTextLen)
        \cup { PositionExample,
               << " ", NL, "\t", NL, "\r", "t", "r", "u", "e", ",", "1", ".", "5", "e", "-", "3" >>,
               << "[", QUOTE, "a", NL, NL, "b", QUOTE, " ", "]", NL, " " >>,
               << "N", "U", "L", "L", NL, "f", "a", "l", "s", "e", "}", "&" >> }

LexInit ==
    /\ text \in LexTexts
    /\ pos = 0 /\ line = 1 /\ col = 1
    /\ tokens = <<>>
    /\ current = NoToken
    /\ errors = <<>>
    /\ stack = <<>>
    /\ status = "lexing"
    /\ result = "none"
    /\ steps = 0

LexNext == TokenizeAll

SpecLexer == LexInit /\ [][LexNext]_vars

(***************************************************************************)
(* The Parser.  A call of a grammar procedure is a frame [proc, pc] on     *)
(* stack; pc names the statement the procedure resumes at.  A synchronize  *)
(* frame also holds its sync_set, and entry, the lookahead at the call     *)
(* (bookkeeping for the postcondition of synchronize).  A ValueError of    *)
(* the lexer that nothing catches unwinds the whole stack.                 *)
(***************************************************************************)
Frame(proc, pc) == [proc |-> proc, pc |-> pc, sync |-> {}, entry |-> NoToken]

SyncFrame(sync_set, tok) ==
    [proc |-> "synchronize", pc |-> "loop", sync |-> sync_set, entry |-> tok]

Top == stack[Len(stack)]

Callers == SubSeq(stack, 1, Len(stack) - 1)

\* the frame on top resumes at pc
Goto(pc) == Append(Callers, [Top EXCEPT !.pc = pc])

\* the frame on top calls f and resumes at pc when f returns
Call(pc, f) == Append(Goto(pc), f)

InProc(proc, pc) ==
    /\ status = "parsing"
    /\ stack # <<>>
    /\ Top.proc = proc
    /\ Top.pc = pc

\* _error: the message with the position, type and lexeme of the current token
Diagnostic(message, tok) ==
    [message |-> message, line |-> tok.line, col |-> tok.col,
     type |-> tok.type, lexeme |-> tok.lexeme]

\* the diagnostic inserted at the head of the list
ErrorFirst(message) == <<Diagnostic(message, current)>> \o errors

Error(message) == Append(errors, Diagnostic(message, current))

\* the tuples of token types the procedures test the current token against
ArrayAfterCommaStarters == {"L_LLAVE", "L_CORCHETE"}

\* '[' left out of the element starters
ArrayMissingCommaOnlyObject == {"L_LLAVE"}

ArrayMissingCommaStarters == {"L_LLAVE", "L_CORCHETE"}

AttributeColonValues ==
    {"L_LLAVE", "L_CORCHETE", "LITERAL_CADENA", "LITERAL_NUM", "PR_TRUE", "PR_FALSE",
     "PR_NULL"}

AttributeValueElements == {"L_LLAVE", "L_CORCHETE"}

\* null left out of the scalar values
AttributeValueScalarsNoNull == {"LITERAL_CADENA", "LITERAL_NUM", "PR_TRUE", "PR_FALSE"}

AttributeValueScalars ==
    {"LITERAL_CADENA", "LITERAL_NUM", "PR_TRUE", "PR_FALSE", "PR_NULL"}

\* ']' left out of the sync set
ElementSyncNoBracket == {"COMA", "R_LLAVE", "EOF"}

ElementSync == {"COMA", "R_LLAVE", "R_CORCHETE", "EOF"}

ArrayCommaSync == {"COMA", "R_CORCHETE", "R_LLAVE", "EOF"}

ArrayCloseSync == {"COMA", "R_CORCHETE", "R_LLAVE", "EOF"}

\* '}' left out of the sync set
ObjectCommaSyncNoBrace == {"LITERAL_CADENA", "COMA", "R_CORCHETE", "EOF"}

ObjectCommaSync == {"LITERAL_CADENA", "R_LLAVE", "COMA", "R_CORCHETE", "EOF"}

ObjectCloseSync == {"COMA", "R_LLAVE", "R_CORCHETE", "EOF"}

AttributeNameSync == {"DOS_PUNTOS", "COMA", "R_LLAVE", "R_CORCHETE", "EOF"}

AttributeColonSync ==
    {"L_LLAVE", "L_CORCHETE", "LITERAL_CADENA", "LITERAL_NUM", "PR_TRUE", "PR_FALSE",
     "PR_NULL", "COMA", "R_LLAVE", "EOF"}

\* '}' left out of the sync set
AttributeValueSyncNoBrace == {"COMA", "R_CORCHETE", "EOF"}

AttributeValueSync == {"COMA", "R_LLAVE", "R_CORCHETE", "EOF"}

MsgElement == "Se esperaba 'object' o 'array' al inicio de 'element'"

MsgEOF == "Se esperaba EOF al final del archivo"

MsgArrayOpen == "Se esperaba '[' para iniciar array"

MsgArrayAfterComma == "Se esperaba 'element' despues de ',' en array"

MsgMissingComma == "Falta ',' entre elementos del array"

MsgArrayClose == "Falta ']' de cierre del array"

MsgObjectOpen == "Se esperaba '{' para iniciar object"

MsgObjectAfterComma == "Se esperaba nombre de atributo(LITERAL_CADENA) despues de ','"

MsgObjectClose == "Falta '}' de cierre del object"

MsgAttributeName == "Se esperaba nombre de atributo (LITERAL_CADENA)"

MsgColon == "Se esperaba ':' despues del nombre del atributo"

MsgValue ==
    "Se esperaba un valor de atributo (element, LITERAL_CADENA, LITERAL_NUM, true, false o null)"

\* the parser moves on without touching the lexer
Stay(errs, stk) ==
    /\ errors' = errs
    /\ stack' = stk
    /\ steps' = steps + 1
    /\ UNCHANGED <<text, pos, line, col, tokens, current, status, result>>

\* _advance, then stk; the lexer's ValueError propagates out of parse()
Advance(stk) ==
    LET r == NextToken(text, Lx) IN
    /\ SetLexer(r.lx)
    /\ IF r.fault
       THEN current' = current /\ stack' = <<>> /\ status' = "raised"
       ELSE current' = r.tok /\ stack' = stk /\ status' = "parsing"
    /\ steps' = steps + 1
    /\ UNCHANGED <<text, tokens, errors, result>>

\* Parser.__init__ on Lexer(text): reads the first token
Construct ==
    /\ status = "new"
    /\ LET r == NextToken(text, Lx) IN
         /\ SetLexer(r.lx)
         /\ IF r.fault
            THEN current' = current /\ status' = "raised"
            ELSE current' = r.tok /\ status' = "ready"
    /\ steps' = steps + 1
    /\ UNCHANGED <<text, tokens, errors, stack, result>>

\* the two tests of the loop joined the wrong way
SyncStopBoth(tok, sync_set) == tok.type = "EOF" /\ tok.type \in sync_set

\* the end of input not ending the loop
SyncStopNotAtEOF(tok, sync_set) == tok.type # "EOF" /\ tok.type \in sync_set

\* synchronize leaves its loop at tok
SyncStop(tok, sync_set) == tok.type = "EOF" \/ tok.type \in sync_set

Synchronize ==
    /\ InProc("synchronize", "loop")
    /\ IF SyncStop(current, Top.sync)
       THEN Stay(errors, Callers)
       ELSE LET r == NextToken(text, Lx) IN
            /\ SetLexer(r.lx)
            /\ IF r.fault
               THEN current' = current /\ stack' = Callers
               ELSE current' = r.tok /\ stack' = stack
            /\ steps' = steps + 1
            /\ UNCHANGED <<text, tokens, errors, status, result>>

\* the test for EOF left out
EndOfInputUnchecked == errors

\* parse() expects EOF after the element
EndOfInputCheck == IF current.type # "EOF" THEN Error(MsgEOF) ELSE errors

Parse ==
    \/ /\ status = "ready"
       /\ status' = "parsing"
       /\ stack' = << Frame("parse", "end"), Frame("element", "start") >>
       /\ steps' = steps + 1
       /\ UNCHANGED <<text, pos, line, col, tokens, current, errors, result>>
    \/ /\ InProc("parse", "end")
       /\ errors' = EndOfInputCheck
       /\ result' = IF Len(errors') = 0 THEN "True" ELSE "False"
       /\ status' = "done"
       /\ stack' = <<>>
       /\ steps' = steps + 1
       /\ UNCHANGED <<text, pos, line, col, tokens, current>>

Element ==
    \/ /\ InProc("element", "start")
       /\ IF current.type = "L_LLAVE"
          THEN Stay(errors, Call("return", Frame("object", "start")))
          ELSE IF current.type = "L_CORCHETE"
          THEN Stay(errors, Call("return", Frame("array", "start")))
          ELSE Stay(Error(MsgElement), Call("return", SyncFrame(ElementSync, current)))
    \/ /\ InProc("element", "return")
       /\ Stay(errors, Callers)

Array ==
    \/ /\ InProc("array", "start")
       /\ IF current.type = "L_CORCHETE"
          THEN Advance(Goto("first"))
          ELSE Stay(Error(MsgArrayOpen), Callers)
    \/ /\ InProc("array", "first")
       /\ IF current.type = "R_CORCHETE"
          THEN Advance(Callers)
          ELSE Stay(errors, Call("loop", Frame("element", "start")))
    \/ /\ InProc("array", "loop")
       /\ IF current.type = "COMA"
          THEN Advance(Goto("after_comma"))
          ELSE IF current.type \in ArrayMissingCommaStarters
          THEN Stay(Error(MsgMissingComma), Call("loop", Frame("element", "start")))
          ELSE Stay(errors, Goto("close"))
    \/ /\ InProc("array", "after_comma")
       /\ IF current.type \notin ArrayAfterCommaStarters
          THEN Stay(Error(MsgArrayAfterComma),
                    Call("after_sync", SyncFrame(ArrayCommaSync, current)))
          ELSE Stay(errors, Call("loop", Frame("element", "start")))
    \/ /\ InProc("array", "after_sync")
       /\ IF current.type = "R_CORCHETE"
          THEN Stay(errors, Goto("close"))
          ELSE Stay(errors, Goto("loop"))
    \/ /\ InProc("array", "close")
       /\ IF current.type = "R_CORCHETE"
          THEN Advance(Callers)
          ELSE Stay(Error(MsgArrayClose),
                    Call("close_sync", SyncFrame(ArrayCloseSync, current)))
    \/ /\ InProc("array", "close_sync")
       /\ IF current.type = "R_CORCHETE"
          THEN Advance(Callers)
          ELSE Stay(errors, Callers)

Object ==
    \/ /\ InProc("object", "start")
       /\ IF current.type = "L_LLAVE"
          THEN Advance(Goto("first"))
          ELSE Stay(Error(MsgObjectOpen), Callers)
    \/ /\ InProc("object", "first")
       /\ IF current.type = "R_LLAVE"
          THEN Advance(Callers)
          ELSE Stay(errors, Call("loop", Frame("attribute", "start")))
    \/ /\ InProc("object", "loop")
       /\ IF current.type = "COMA"
          THEN Advance(Goto("after_comma"))
          ELSE Stay(errors, Goto("close"))
    \/ /\ InProc("object", "after_comma")
       /\ IF current.type # "LITERAL_CADENA"
          THEN Stay(Error(MsgObjectAfterComma),
                    Call("attribute", SyncFrame(ObjectCommaSync, current)))
          ELSE Stay(errors, Goto("attribute"))
    \/ /\ InProc("object", "attribute")
       /\ Stay(errors, Call("loop", Frame("attribute", "start")))
    \/ /\ InProc("object", "close")
       /\ IF current.type = "R_LLAVE"
          THEN Advance(Callers)
          ELSE Stay(Error(MsgObjectClose),
                    Call("close_sync", SyncFrame(ObjectCloseSync, current)))
    \/ /\ InProc("object", "close_sync")
       /\ IF current.type = "R_LLAVE"
          THEN Advance(Callers)
          ELSE Stay(errors, Callers)

Attribute ==
    \/ /\ InProc("attribute", "start")
       /\ IF current.type # "LITERAL_CADENA"
          THEN Stay(Error(MsgAttributeName),
                    Call("name_sync", SyncFrame(AttributeNameSync, current)))
          ELSE Stay(errors, Goto("name"))
    \/ /\ InProc("attribute", "name_sync")
       /\ IF current.type # "DOS_PUNTOS"
          THEN Stay(errors, Callers)
          ELSE Stay(errors, Goto("name"))
    \/ /\ InProc("attribute", "name")
       /\ IF current.type = "LITERAL_CADENA"
          THEN Advance(Goto("colon"))
          ELSE Stay(errors, Goto("colon"))
    \/ /\ InProc("attribute", "colon")
       /\ IF current.type = "DOS_PUNTOS"
          THEN Advance(Goto("value"))
          ELSE Stay(Error(MsgColon),
                    Call("colon_sync", SyncFrame(AttributeColonSync, current)))
    \/ /\ InProc("attribute", "colon_sync")
       /\ IF current.type \notin AttributeColonValues
          THEN Stay(errors, Callers)
          ELSE Stay(errors, Goto("value"))
    \/ /\ InProc("attribute", "value")
       /\ Stay(errors, Call("return", Frame("attribute_value", "start")))
    \/ /\ InProc("attribute", "return")
       /\ Stay(errors, Callers)

AttributeValue ==
    \/ /\ InProc("attribute_value", "start")
       /\ IF current.type \in AttributeValueElements
          THEN Stay(errors, Call("return", Frame("element", "start")))
          ELSE IF current.type \in AttributeValueScalars
          THEN Advance(Callers)
          ELSE Stay(Error(MsgValue), Call("return", SyncFrame(AttributeValueSync, current)))
    \/ /\ InProc("attribute_value", "return")
       /\ Stay(errors, Callers)

(***************************************************************************)
(* Inputs of the parser instance: the lexemes of a sequence of token       *)
(* kinds, separated by single spaces.  "BAD" stands for a character no     *)
(* rule of TOKENS matches.                                                 *)
(***************************************************************************)
Lexeme(kind) ==
    CASE kind = "L_CORCHETE" -> <<"[">>
      [] kind = "R_CORCHETE" -> <<"]">>
      [] kind = "L_LLAVE" -> <<"{">>
      [] kind = "R_LLAVE" -> <<"}">>
      [] kind = "COMA" -> <<",">>
      [] kind = "DOS_PUNTOS" -> <<":">>
      [] kind = "LITERAL_CADENA" -> <<QUOTE, "a", QUOTE>>
      [] kind = "LITERAL_NUM" -> <<"1">>
      [] kind = "PR_TRUE" -> <<"t", "r", "u", "e">>
      [] kind = "PR_FALSE" -> <<"f", "a", "l", "s", "e">>
      [] kind = "PR_NULL" -> <<"n", "u", "l", "l">>
      [] kind = "BAD" -> <<"&">>

RECURSIVE TextOf(_)
TextOf(kinds) ==
    IF kinds = <<>> THEN <<>>
    ELSE IF Len(kinds) = 1 THEN Lexeme(kinds[1])
    ELSE Lexeme(kinds[1]) \o <<" ">> \o TextOf(Tail(kinds))

InputKinds ==
    {"L_CORCHETE", "R_CORCHETE", "L_LLAVE", "R_LLAVE", "COMA", "DOS_PUNTOS",
     "LITERAL_CADENA", "LITERAL_NUM", "BAD"}

\* every sequence of at most MaxGrammarLen token kinds that the grammar
\*   element = object | array
\*   object = '{' '}' | '{' attribute (',' attribute)* '}'
\*   attribute = STRING ':' attribute-value
\*   attribute-value = element | STRING | NUMBER | true | false | null
\*   array = '[' ']' | '[' element (',' element)* ']'
\* derives, built from the shorter ones
GrammarScalars == {"LITERAL_CADENA", "LITERAL_NUM", "PR_TRUE", "PR_FALSE", "PR_NULL"}

RECURSIVE Grammar(_)
Grammar(n) ==
    IF n = 0
    THEN [element |-> {}, elements |-> {}, attribute |-> {}, attributes |-> {}]
    ELSE LET g == Grammar(n - 1)
             Short(S) == {s \in S : Len(s) <= MaxGrammarLen}
         IN  [element |->
                  Short({<<"L_CORCHETE", "R_CORCHETE">>, <<"L_LLAVE", "R_LLAVE">>}
                        \cup {<<"L_CORCHETE">> \o l \o <<"R_CORCHETE">> : l \in g.elements}
                        \cup {<<"L_LLAVE">> \o l \o <<"R_LLAVE">> : l \in g.attributes}),
              elements |->
                  Short(g.element
                        \cup {e \o <<"COMA">> \o l : e \in g.element, l \in g.elements}),
              attribute |->
                  Short({<<"LITERAL_CADENA", "DOS_PUNTOS">> \o v :
                             v \in g.element \cup {<<k>> : k \in GrammarScalars}}),
              attributes |->
                  Short(g.attribute
                        \cup {a \o <<"COMA">> \o l : a \in g.attribute, l \in g.attributes})]

WellFormed == Grammar(MaxGrammarLen).element

\* the well-formed sequences of at most MaxEditLen kinds with one kind
\* deleted, replaced or inserted
Deletions(k) == {SubSeq(k, 1, i - 1) \o SubSeq(k, i + 1, Len(k)) : i \in 1..Len(k)}

Replacements(k) == {[k EXCEPT ![i] = c] : i \in 1..Len(k), c \in InputKinds}

Insertions(k) ==
    {SubSeq(k, 1, i) \o <<c>> \o SubSeq(k, i + 1, Len(k)) : i \in 0..Len(k), c \in InputKinds}

ShortWellFormed == {w \in WellFormed : Len(w) <= MaxEditLen}

NearMisses ==
    UNION {Deletions(k) \cup Replacements(k) \cup Insertions(k) : k \in ShortWellFormed}

\* a well-formed sequence, or one with a kind deleted, cut short by a
\* character the lexer faults on
Faulted ==
    UNION {{Append(SubSeq(k, 1, i), "BAD") : i \in 0..Len(k)} :
               k \in ShortWellFormed \cup UNION {Deletions(w) : w \in ShortWellFormed}}

\* the inputs the documentation names:
\*   [1 2]   {"a":}   {"a":1,}   {"a":1,"b":[1,2,3]}   "{\n  \"a\":1\n}"
ExampleTexts ==
    { << "[", "1", " ", "2", "]" >>,
      << "{", QUOTE, "a", QUOTE, ":", "}" >>,
      << "{", QUOTE, "a", QUOTE, ":", "1", ",", "}" >>,
      << "{", QUOTE, "a", QUOTE, ":", "1", ",", QUOTE, "b", QUOTE, ":",
         "[", "1", ",", "2", ",", "3", "]", "}" >>,
      PositionExample }

\* inputs on which a recovery skips tokens, or on which nested procedures
\* unwind at the end of the input:
\*   {"a":1,:1}   { , : }   [ , : : ]   [ { : [   { "a" [ {
RecoveryKinds ==
    { <<"L_LLAVE", "LITERAL_CADENA", "DOS_PUNTOS", "LITERAL_NUM", "COMA", "DOS_PUNTOS",
        "LITERAL_NUM", "R_LLAVE">>,
      <<"L_LLAVE", "COMA", "DOS_PUNTOS", "R_LLAVE">>,
      <<"L_CORCHETE", "COMA", "DOS_PUNTOS", "DOS_PUNTOS", "R_CORCHETE">>,
      <<"L_CORCHETE", "L_LLAVE", "DOS_PUNTOS", "L_CORCHETE">>,
      <<"L_LLAVE", "LITERAL_CADENA", "L_CORCHETE", "L_LLAVE">> }

ParserTexts ==
    {TextOf(k) : k \in TextsUpTo(InputKinds, MaxTokens) \cup WellFormed \cup NearMisses
                           \cup Faulted \cup RecoveryKinds}
        \cup ExampleTexts

Init ==
    /\ text = <<>>
    /\ pos = 0 /\ line = 1 /\ col = 1
    /\ tokens = <<>>
    /\ current = NoToken
    /\ errors = <<>>
    /\ stack = <<>>
    /\ status = "start"
    /\ result = "none"
    /\ steps = 0

\* Lexer.__init__ on the text that is to be parsed
NewLexer ==
    /\ status = "start"
    /\ text' \in ParserTexts
    /\ pos' = 0 /\ line' = 1 /\ col' = 1
    /\ status' = "new"
    /\ UNCHANGED <<tokens, current, errors, stack, result, steps>>

Next ==
    \/ NewLexer
    \/ Construct
    \/ Parse
    \/ Element
    \/ Array
    \/ Object
    \/ Attribute
    \/ AttributeValue
    \/ Synchronize

Spec == Init /\ [][Next]_vars

(***************************************************************************)
(* What the claims speak of: the token stream of the text, the grammar of  *)
(* the documentation as a recogniser, and positions in the text.           *)
(***************************************************************************)
RECURSIVE TokensFrom(_, _)
\* the tokens a fresh lexer returns from lx on, up to and including EOF;
\* a fault ends the sequence without an EOF token
TokensFrom(t, lx) ==
    LET r == NextToken(t, lx) IN
    IF r.fault THEN <<>>
    ELSE IF r.tok.type = "EOF" THEN <<r.tok>>
    ELSE <<r.tok>> \o TokensFrom(t, r.lx)

Stream == TokensFrom(text, [pos |-> 0, line |-> 1, col |-> 1])

LexerFaults == Stream = <<>> \/ Last(Stream).type # "EOF"

\* the token kinds before EOF
KindsOf(s) == [i \in 1..(Len(s) - 1) |-> s[i].type]

Kinds == KindsOf(Stream)

\* the position of tok in the stream (tokens differ in line or column)
IndexIn(s, tok) == CHOOSE i \in 1..Len(s) : s[i] = tok

IndexOf(tok) == IndexIn(Stream, tok)

Occurs(s, tok) == \E i \in 1..Len(s) : s[i] = tok

InStream(tok) == Occurs(Stream, tok)

Finished == status \in {"done", "raised"}

RECURSIVE IsElement(_), IsElements(_), IsAttributes(_)
IsArray(k) ==
    /\ Len(k) >= 2
    /\ k[1] = "L_CORCHETE"
    /\ k[Len(k)] = "R_CORCHETE"
    /\ Len(k) = 2 \/ IsElements(SubSeq(k, 2, Len(k) - 1))

IsObject(k) ==
    /\ Len(k) >= 2
    /\ k[1] = "L_LLAVE"
    /\ k[Len(k)] = "R_LLAVE"
    /\ Len(k) = 2 \/ IsAttributes(SubSeq(k, 2, Len(k) - 1))

IsElement(k) == IsObject(k) \/ IsArray(k)

IsElements(k) ==
    \/ IsElement(k)
    \/ \E i \in 2..(Len(k) - 1) :
           /\ k[i] = "COMA"
           /\ IsElement(SubSeq(k, 1, i - 1))
           /\ IsElements(SubSeq(k, i + 1, Len(k)))

IsAttributeValue(k) ==
    \/ IsElement(k)
    \/ /\ Len(k) = 1
       /\ k[1] \in {"LITERAL_CADENA", "LITERAL_NUM", "PR_TRUE", "PR_FALSE", "PR_NULL"}

IsAttribute(k) ==
    /\ Len(k) >= 3
    /\ k[1] = "LITERAL_CADENA"
    /\ k[2] = "DOS_PUNTOS"
    /\ IsAttributeValue(SubSeq(k, 3, Len(k)))

IsAttributes(k) ==
    \/ IsAttribute(k)
    \/ \E i \in 2..(Len(k) - 1) :
           /\ k[i] = "COMA"
           /\ IsAttribute(SubSeq(k, 1, i - 1))
           /\ IsAttributes(SubSeq(k, i + 1, Len(k)))

\* json = element EOF
Derivable == ~LexerFaults /\ IsElement(Kinds)

\* C1: completeness. On every text whose token sequence the grammar
\* json = element EOF derives, the parser never records a diagnostic and
\* never aborts, and when parse() returns it returns True with the
\* lookahead at the end-of-input token.
C1_Completeness ==
    \/ /\ errors = <<>>
       /\ status # "raised"
       /\ status = "done" => (result = "True" /\ current.type = "EOF")
    \/ ~Derivable

C1_Witness ==
    /\ status = "done"
    /\ result = "True"
    /\ Derivable
    /\ Len(Kinds) >= 9
    /\ \E i \in 1..Len(Kinds) : Kinds[i] = "PR_NULL"

\* C2: soundness. When the lexer does not fault, parse() returns True
\* (zero diagnostics) only on token sequences the grammar derives; every
\* other sequence ends with at least one diagnostic and parse() = False.
C2_Soundness ==
    /\ status = "done" => ((result = "True") <=> (errors = <<>>))
    /\ (status = "done" /\ result = "True") => Derivable
    /\ (Finished /\ ~LexerFaults /\ ~IsElement(Kinds)) =>
           (status = "done" /\ result = "False" /\ Len(errors) >= 1)

C2_Witness ==
    /\ status = "done"
    /\ result = "False"
    /\ ~LexerFaults
    /\ ~IsElement(Kinds)
    /\ Len(Kinds) >= 6
    /\ Len(errors) = 1
    /\ errors[1].message = MsgEOF

MissingCommaExample == << "[", "1", " ", "2", "]" >>

\* C3 as stated: on [1 2] parse() records exactly one diagnostic, the
\* array loop's "missing comma" one, and returns with the lookahead at EOF.
C3_Original ==
    (text = MissingCommaExample /\ Finished) =>
        /\ status = "done"
        /\ Len(errors) = 1
        /\ errors[1].message = MsgMissingComma
        /\ current.type = "EOF"

\* C3 as amended: on [1 2] parse() records exactly one diagnostic, the
\* "expected object or array" one of element() citing the first NUMBER (a
\* NUMBER cannot start an element, so the array loop never sees two
\* adjacent elements); synchronize lands on ']', array() consumes it, and
\* parse() returns False with the lookahead at EOF.
C3_ElementDiagnostic ==
    (text = MissingCommaExample /\ Finished) =>
        /\ status = "done"
        /\ result = "False"
        /\ errors = << Diagnostic(MsgElement, Token("LITERAL_NUM", <<"1">>, 1, 2)) >>
        /\ current = Token("EOF", <<>>, 1, 6)

C3_Witness == text = MissingCommaExample /\ status = "done" /\ Len(errors) = 1

MissingValueExample == << "{", QUOTE, "a", QUOTE, ":", "}" >>

\* C4: on {"a":} parse() records exactly one diagnostic, the one of
\* attribute_value at the '}' token; synchronize discards nothing (it is
\* entered and left with that '}' as lookahead), object() finds '}' at its
\* closing test and consumes it, and parse() ends with the lookahead at EOF.
C4_MissingValue ==
    text = MissingValueExample =>
        /\ status # "raised"
        /\ \A i \in 1..Len(stack) :
               stack[i].proc = "synchronize" =>
                   /\ stack[i].entry = Token("R_LLAVE", <<"}">>, 1, 6)
                   /\ current = stack[i].entry
        /\ InProc("object", "close") => current = Token("R_LLAVE", <<"}">>, 1, 6)
        /\ \A i \in 1..Len(stack) : stack[i].pc # "close_sync"
        /\ Len(errors) <= 1
        /\ errors # <<>> =>
               errors[1] = Diagnostic(MsgValue, Token("R_LLAVE", <<"}">>, 1, 6))
        /\ status = "done" =>
               (Len(errors) = 1 /\ result = "False" /\ current = Token("EOF", <<>>, 1, 7))

C4_Witness == text = MissingValueExample /\ status = "done" /\ Len(errors) = 1

\* the line and the column of the character at offset p, counted on the text
NewlinesBefore(p) == {i \in 1..p : text[i] = NL}

LineAt(p) == 1 + Cardinality(NewlinesBefore(p))

ColAt(p) ==
    IF NewlinesBefore(p) = {} THEN 1 + p
    ELSE 1 + (p - (CHOOSE i \in NewlinesBefore(p) : \A j \in NewlinesBefore(p) : j <= i))

\* C5: position invariant of the Lexer. After any number of next_token()
\* calls, line is 1 plus the number of newlines before offset pos and col
\* is 1 plus the number of characters between the last newline before pos
\* (or the text start) and pos; and the token just returned, the
\* end-of-input token included, is the text that ends at pos and carries
\* the line and column of its own first character.
C5_Position ==
    /\ line = LineAt(pos)
    /\ col = ColAt(pos)
    /\ \A i \in 1..Len(tokens) :
           (i = Len(tokens) /\ tokens[i].type # "LEX_ERROR") =>
               LET start == pos - Len(tokens[i].lexeme) IN
               /\ start >= 0
               /\ Slice(text, start, pos) = tokens[i].lexeme
               /\ tokens[i].line = LineAt(start)
               /\ tokens[i].col = ColAt(start)
    /\ (text = PositionExample /\ Len(tokens) >= 2) =>
           tokens[2] = Token("LITERAL_CADENA", <<QUOTE, "a", QUOTE>>, 2, 3)

C5_Witness ==
    /\ status = "lexed"
    /\ \E i \in 1..Len(tokens) :
           /\ tokens[i].type = "LITERAL_CADENA"
           /\ CountNewlines(tokens[i].lexeme) = 2
           /\ tokens[i].line = 1
    /\ Last(tokens).type = "EOF"
    /\ Last(tokens).line = 4
    /\ Last(tokens).col = 2

\* the token after tok in the stream
Following(tok) == Stream[IndexOf(tok) + 1]

\* the next pull of the parser faults
PullFaults == NextToken(text, Lx).fault

\* the last diagnostic is the array loop's "missing comma" and cites the
\* token that is still the lookahead
MissingCommaPending ==
    /\ errors # <<>>
    /\ Last(errors) = Diagnostic(MsgMissingComma, current)

\* the array loop reports a missing ',' before '{' or '[' and goes on to element()
C6_MissingCommaStep ==
    (InProc("array", "loop") /\ current.type \in {"L_LLAVE", "L_CORCHETE"}) =>
        /\ errors' = Append(errors, Diagnostic(MsgMissingComma, current))
        /\ current' = current
        /\ UNCHANGED lexvars
        /\ stack' = Append(stack, Frame("element", "start"))

C6_OpenerStep ==
    (MissingCommaPending /\ status = "parsing" /\ Top.proc \in {"object", "array"}) =>
        /\ errors' = errors
        /\ IF PullFaults
           THEN status' = "raised" /\ current' = current
           ELSE /\ current' = Following(current)
                /\ stack' = Append(Callers, Frame(Top.proc, "first"))

C6_DanglingCommaStep ==
    (InProc("array", "after_comma") /\ current.type \notin {"L_LLAVE", "L_CORCHETE"}) =>
        /\ errors' = Append(errors, Diagnostic(MsgArrayAfterComma, current))
        /\ current' = current
        /\ stack' = Callers \o << Frame("array", "after_sync"),
                                  SyncFrame({"COMA", "R_CORCHETE", "R_LLAVE", "EOF"}, current) >>

C6_AfterSyncStep ==
    InProc("array", "after_sync") =>
        /\ errors' = errors
        /\ current' = current
        /\ stack' = Append(Callers, Frame("array", IF current.type = "R_CORCHETE"
                                                   THEN "close" ELSE "loop"))

C6_Pending ==
    (MissingCommaPending /\ status = "parsing") =>
        /\ Top.pc = "start"
        /\ \/ Top.proc = "element"
           \/ Top.proc = "object" /\ current.type = "L_LLAVE"
           \/ Top.proc = "array" /\ current.type = "L_CORCHETE"
        /\ stack[Len(stack) - 1].proc \in {"array", "element"}

\* C6: in the array loop, a lookahead '{' or '[' where ',' was expected
\* gets exactly one "missing comma" diagnostic citing it, with no call of
\* synchronize; the lookahead stays that token until object() or array()
\* matches it as its opener and pulls the token after it (a lexer fault on
\* that pull ends parse()).  After a consumed ',' a lookahead that is
\* neither '{' nor '[' gets the "expected element after ','" diagnostic and
\* synchronize over {',', ']', '}', EOF}; the loop is left at once when
\* that lands on ']'.
C6_MissingCommaRecovery ==
    /\ [](C6_Pending)
    /\ [][C6_MissingCommaStep /\ C6_OpenerStep /\ C6_DanglingCommaStep
              /\ C6_AfterSyncStep]_vars

C6_Witness ==
    /\ InProc("array", "first")
    /\ errors # <<>>
    /\ Last(errors).message = MsgMissingComma
    /\ Last(errors).type = "L_CORCHETE"
    /\ IndexOf(current) > 1
    /\ Stream[IndexOf(current) - 1].line = Last(errors).line
    /\ Stream[IndexOf(current) - 1].col = Last(errors).col

\* the token ends the skip of synchronize(sync_set)
Qualifies(tok, sync_set) == tok.type \in sync_set \/ tok.type = "EOF"

\* no token from the entry lookahead up to the lookahead ended the skip
C7_Skipped ==
    InProc("synchronize", "loop") =>
        /\ InStream(Top.entry)
        /\ InStream(current)
        /\ IndexOf(Top.entry) <= IndexOf(current)
        /\ \A m \in IndexOf(Top.entry)..(IndexOf(current) - 1) :
               ~Qualifies(Stream[m], Top.sync)

C7_Step ==
    InProc("synchronize", "loop") =>
        /\ errors' = errors
        /\ status' = "parsing"
        /\ IF Qualifies(current, Top.sync)
           THEN stack' = Callers /\ current' = current /\ UNCHANGED lexvars
           ELSE IF IndexOf(current) = Len(Stream)
           THEN LexerFaults /\ stack' = Callers /\ current' = current
           ELSE stack' = stack /\ current' = Following(current)

\* C7: synchronize never raises and never appends a diagnostic.  While it
\* runs, the lookahead is at or after the lookahead at entry and no token
\* from the entry lookahead up to it was of a kind in the sync set or EOF;
\* it returns exactly when the lookahead is of such a kind (consuming
\* nothing when the entry lookahead already is) or when the lexer faults on
\* the next pull, and then the lookahead is still the last token pulled.
C7_Synchronize == [](C7_Skipped) /\ [][C7_Step]_vars

C7_Witness ==
    /\ InProc("synchronize", "loop")
    /\ Qualifies(current, Top.sync)
    /\ current.type # "EOF"
    /\ IndexOf(current) >= IndexOf(Top.entry) + 2

\* a is at or before b in the text
NotAfter(a, b) == a.line < b.line \/ (a.line = b.line /\ a.col <= b.col)

\* the diagnostics cite non-decreasing positions
C8_Ordered ==
    \A i \in 1..Len(errors) : \A j \in i..Len(errors) : NotAfter(errors[i], errors[j])

C8_Step ==
    /\ Len(errors') \in {Len(errors), Len(errors) + 1}
    /\ SubSeq(errors', 1, Len(errors)) = errors
    /\ NotAfter(current, current')
    /\ pos' >= pos

\* C8: the diagnostic list only grows at its end, the lookahead never moves
\* backwards, and the positions the diagnostics cite are non-decreasing.
C8_DiagnosticOrder == [](C8_Ordered) /\ [][C8_Step]_vars

C8_Witness ==
    /\ status = "done"
    /\ Len(errors) >= 3
    /\ errors[1].col < errors[2].col
    /\ errors[2].col < errors[3].col

TrailingCommaExample == << "{", QUOTE, "a", QUOTE, ":", "1", ",", "}" >>

\* object() reports a missing attribute name after ',' and synchronizes
C9_AfterCommaStep ==
    (InProc("object", "after_comma") /\ current.type # "LITERAL_CADENA") =>
        /\ errors' = Append(errors, Diagnostic(MsgObjectAfterComma, current))
        /\ current' = current
        /\ stack' = Callers \o
               << Frame("object", "attribute"),
                  SyncFrame({"LITERAL_CADENA", "R_LLAVE", "COMA", "R_CORCHETE", "EOF"},
                            current) >>

C9_CallStep ==
    InProc("object", "attribute") =>
        /\ errors' = errors
        /\ current' = current
        /\ UNCHANGED lexvars
        /\ stack' = Callers \o << Frame("object", "loop"), Frame("attribute", "start") >>

C9_SecondStep ==
    (InProc("attribute", "start") /\ current.type # "LITERAL_CADENA") =>
        /\ errors' = Append(errors, Diagnostic(MsgAttributeName, current))
        /\ current' = current
        /\ UNCHANGED lexvars

\* synchronize has returned to object() on a token that is not a STRING
C9_Landed ==
    (InProc("object", "attribute") /\ current.type # "LITERAL_CADENA") =>
        /\ errors # <<>>
        /\ Last(errors).message = MsgObjectAfterComma
        /\ NotAfter(Last(errors), current)
        /\ Qualifies(Last(errors), {"LITERAL_CADENA", "R_LLAVE", "COMA", "R_CORCHETE", "EOF"})
               => Last(errors) = Diagnostic(MsgObjectAfterComma, current)

C9_Example ==
    (text = TrailingCommaExample /\ Finished) =>
        /\ status = "done"
        /\ result = "False"
        /\ errors = << Diagnostic(MsgObjectAfterComma, Token("R_LLAVE", <<"}">>, 1, 8)),
                       Diagnostic(MsgAttributeName, Token("R_LLAVE", <<"}">>, 1, 8)) >>
        /\ current = Token("EOF", <<>>, 1, 9)

ProgramPoints ==
    { <<"parse", "end">>, <<"element", "start">>, <<"element", "return">>,
      <<"synchronize", "loop">>, <<"attribute_value", "start">>,
      <<"attribute_value", "return">> }
        \cup { <<p, pc>> : p \in {"array", "object"},
                           pc \in {"start", "first", "loop", "after_comma", "close",
                                   "close_sync"} }
        \cup { <<"array", "after_sync">>, <<"object", "attribute">> }
        \cup { <<"attribute", pc>> : pc \in {"start", "name_sync", "name", "colon",
                                             "colon_sync", "value", "return"} }

\* the steps taken stay within a linear bound of the token count
C10_Bound == steps <= 10 * Len(Stream) + 2

C10_Running ==
    \/ Finished
    \/ status \in {"start", "new", "ready"}
    \/ /\ status = "parsing"
       /\ stack # <<>>
       /\ <<Top.proc, Top.pc>> \in ProgramPoints

\* the step replaces the lookahead by a later token, or the lexer faults
C10_Consumes ==
    \/ status' = "raised"
    \/ current' # current /\ NotAfter(current, current') /\ pos' >= pos

\* the lookahead is the opener the procedure on top is about to match
C10_AtOpener ==
    /\ status = "parsing"
    /\ stack # <<>>
    /\ Top.pc = "start"
    /\ \/ Top.proc = "array" /\ current.type = "L_CORCHETE"
       \/ Top.proc = "object" /\ current.type = "L_LLAVE"

C10_Step ==
    /\ status # "start" => steps' = steps + 1
    /\ InProc("synchronize", "loop") => (stack' = Callers \/ C10_Consumes)
    /\ InProc("array", "loop") =>
           \/ current.type = "COMA" /\ C10_Consumes
           \/ /\ current.type \in {"L_LLAVE", "L_CORCHETE"}
              /\ stack' = Append(stack, Frame("element", "start"))
           \/ stack' = Goto("close")
    /\ InProc("object", "loop") =>
           \/ current.type = "COMA" /\ C10_Consumes
           \/ stack' = Goto("close")
    /\ C10_AtOpener => C10_Consumes
    /\ current.type = "EOF" => (current' = current /\ UNCHANGED lexvars)

\* C10: parse() finishes on every input, returning or aborting with the
\* lexer's fault: the parser is never stuck before it has finished, every
\* step is counted, and it takes at most 10 steps for each token of the
\* text (and 2 more), so no loop runs forever; a pass of the array loop, of
\* the object comma loop or of the synchronize loop consumes a token (the
\* ',', the opener of the next element, the skipped token) or leaves the
\* loop, and once the lookahead is end-of-input no token is pulled.
C10_Termination == [](C10_Bound /\ C10_Running) /\ [][C10_Step]_vars

C10_Witness ==
    /\ Finished
    /\ Len(errors) >= 3
    /\ steps >= 5 * Len(Stream)

====
